---- MODULE Spec2Model ----
(***************************************************************************)
(* Statements: a single-table record manager.                              *)
(*   src/app/routes/_index.tsx  loader (read path), action (write path)    *)
(*   src/services/db.server.ts  query (gateway over a connection pool)     *)
(*   src/SQL/Statements.sql     the statements table                       *)
(*                                                                         *)
(* Text is a sequence of one-character strings.  A form value that is      *)
(* absent (FormData.get returns null) is the value Null.  The database is  *)
(* MariaDB in its default (strict) SQL mode; a statement is atomic.        *)
(***************************************************************************)
EXTENDS Integers, Sequences, FiniteSets, TLC

(***************************************************************************)
(* Text                                                                    *)
(***************************************************************************)
Null == <<"NULL">>

WhiteSpace == {" ", "\t", "\n"}

Digits == <<"0", "1", "2", "3", "4", "5", "6", "7", "8", "9">>

IsDigit(ch) == \E i \in 1..10 : Digits[i] = ch

DigitVal(ch) == (CHOOSE i \in 1..10 : Digits[i] = ch) - 1

\* JavaScript truthiness of a form value: null and "" are falsy.
Falsy(v) == v = Null \/ v = <<>>

RECURSIVE TrimStart(_)
TrimStart(s) ==
    IF s = <<>> THEN <<>>
    ELSE IF Head(s) \in WhiteSpace THEN TrimStart(Tail(s)) ELSE s

RECURSIVE TrimEnd(_)
TrimEnd(s) ==
    IF s = <<>> THEN <<>>
    ELSE IF s[Len(s)] \in WhiteSpace THEN TrimEnd(SubSeq(s, 1, Len(s) - 1)) ELSE s

\* String.prototype.trim
Trim(s) == TrimEnd(TrimStart(s))

AllDigits(s) == \A i \in 1..Len(s) : IsDigit(s[i])

RECURSIVE DigitsValue(_)
DigitsValue(s) ==
    IF s = <<>> THEN 0
    ELSE 10 * DigitsValue(SubSeq(s, 1, Len(s) - 1)) + DigitVal(s[Len(s)])

RECURSIVE Pow10(_)
Pow10(n) == IF n = 0 THEN 1 ELSE 10 * Pow10(n - 1)

Pad2(n) == <<Digits[(n \div 10) + 1], Digits[(n % 10) + 1]>>

Pad3(n) == <<Digits[(n \div 100) + 1]>> \o Pad2(n % 100)

Pad4(n) == Pad2(n \div 100) \o Pad2(n % 100)

(***************************************************************************)
(* Number(amount): a number is NaN or mant / 10^scale.  The decimal        *)
(* literals of StringToNumber are parsed; exponent, hexadecimal and        *)
(* Infinity literals are not among the inputs of this model.               *)
(***************************************************************************)
NaN == [nan |-> TRUE, mant |-> 0, scale |-> 0]

Num(m, sc) == [nan |-> FALSE, mant |-> m, scale |-> sc]

DotIndex(s) ==
    IF \E i \in 1..Len(s) : s[i] = "."
    THEN CHOOSE i \in 1..Len(s) : s[i] = "." /\ \A j \in 1..(i - 1) : s[j] /= "."
    ELSE 0

\* An unsigned decimal literal: digits, digits. , digits.digits , .digits
UnsignedDecimal(s) ==
    LET dot == DotIndex(s) IN
    IF dot = 0
    THEN IF s /= <<>> /\ AllDigits(s) THEN Num(DigitsValue(s), 0) ELSE NaN
    ELSE LET int  == SubSeq(s, 1, dot - 1)
             frac == SubSeq(s, dot + 1, Len(s))
         IN  IF (int /= <<>> \/ frac /= <<>>) /\ AllDigits(int) /\ AllDigits(frac)
             THEN Num(DigitsValue(int \o frac), Len(frac))
             ELSE NaN

ToNumber(v) ==
    IF v = Null THEN Num(0, 0)
    ELSE LET t == Trim(v) IN
         IF t = <<>> THEN Num(0, 0)
         ELSE IF Head(t) = "-"
              THEN LET u == UnsignedDecimal(Tail(t)) IN
                   IF u.nan THEN NaN ELSE Num(0 - u.mant, u.scale)
              ELSE IF Head(t) = "+" THEN UnsignedDecimal(Tail(t))
              ELSE UnsignedDecimal(t)

isNaN(n) == n.nan

(***************************************************************************)
(* new Date(text), getTime, toISOString.  A time value is a day number     *)
(* (days since 1970-01-01, UTC) and the milliseconds within that day.      *)
(* The ISO date-time format of ECMAScript is parsed: YYYY-MM-DD alone is   *)
(* UTC; YYYY-MM-DDTHH:mm[:ss[.sss]] without an offset is local time of the *)
(* server; a trailing Z or +HH:mm / -HH:mm gives the offset.  Any other    *)
(* text is an invalid date.                                                *)
(***************************************************************************)
MsPerMinute == 60000

MsPerDay == 86400000

InvalidDate == [valid |-> FALSE, day |-> 0, ms |-> 0]

DaysFromCivil(y, m, d) ==
    LET yy  == IF m <= 2 THEN y - 1 ELSE y
        era == yy \div 400
        yoe == yy - era * 400
        mp  == IF m > 2 THEN m - 3 ELSE m + 9
        doy == (153 * mp + 2) \div 5 + d - 1
        doe == yoe * 365 + yoe \div 4 - yoe \div 100 + doy
    IN  era * 146097 + doe - 719468

CivilFromDays(z0) ==
    LET z   == z0 + 719468
        era == z \div 146097
        doe == z - era * 146097
        yoe == (doe - doe \div 1460 + doe \div 36524 - doe \div 146096) \div 365
        doy == doe - (365 * yoe + yoe \div 4 - yoe \div 100)
        mp  == (5 * doy + 2) \div 153
        d   == doy - (153 * mp + 2) \div 5 + 1
        m   == IF mp < 10 THEN mp + 3 ELSE mp - 9
        y   == yoe + era * 400 + (IF m <= 2 THEN 1 ELSE 0)
    IN  [y |-> y, m |-> m, d |-> d]

\* The time value of a wall clock reading taken offsetMin minutes east of UTC.
MakeTime(y, m, d, msOfDay, offsetMin) ==
    LET day == DaysFromCivil(y, m, d)
        t   == msOfDay - offsetMin * MsPerMinute
    IN  [valid |-> TRUE, day |-> day + (t \div MsPerDay), ms |-> t % MsPerDay]

DatePartOk(s) ==
    /\ Len(s) >= 10
    /\ AllDigits(SubSeq(s, 1, 4)) /\ s[5] = "-"
    /\ AllDigits(SubSeq(s, 6, 7)) /\ s[8] = "-"
    /\ AllDigits(SubSeq(s, 9, 10))
    /\ DigitsValue(SubSeq(s, 6, 7)) \in 1..12
    /\ DigitsValue(SubSeq(s, 9, 10)) \in 1..31

\* The clock part HH:mm, HH:mm:ss or HH:mm:ss.sss: its milliseconds, or -1.
ClockMs(c) ==
    LET hm == /\ Len(c) \in {5, 8, 12}
              /\ AllDigits(SubSeq(c, 1, 2)) /\ c[3] = ":"
              /\ AllDigits(SubSeq(c, 4, 5))
        sOk  == Len(c) < 8 \/ (c[6] = ":" /\ AllDigits(SubSeq(c, 7, 8)))
        msOk == Len(c) < 12 \/ (c[9] = "." /\ AllDigits(SubSeq(c, 10, 12)))
    IN  IF ~(hm /\ sOk /\ msOk) THEN -1
        ELSE LET h  == DigitsValue(SubSeq(c, 1, 2))
                 mi == DigitsValue(SubSeq(c, 4, 5))
                 se == IF Len(c) >= 8 THEN DigitsValue(SubSeq(c, 7, 8)) ELSE 0
                 ms == IF Len(c) = 12 THEN DigitsValue(SubSeq(c, 10, 12)) ELSE 0
             IN  IF \/ h > 24 \/ mi > 59 \/ se > 59
                    \/ (h = 24 /\ (mi > 0 \/ se > 0 \/ ms > 0))
                 THEN -1
                 ELSE ((h * 60 + mi) * 60 + se) * 1000 + ms

\* The offset suffix: [ok, local, min]; local means no suffix was written.
ZoneOf(z) ==
    IF z = <<>> THEN [ok |-> TRUE, local |-> TRUE, min |-> 0]
    ELSE IF z = <<"Z">> THEN [ok |-> TRUE, local |-> FALSE, min |-> 0]
    ELSE IF /\ Len(z) = 6 /\ z[1] \in {"+", "-"}
            /\ AllDigits(SubSeq(z, 2, 3)) /\ z[4] = ":" /\ AllDigits(SubSeq(z, 5, 6))
            /\ DigitsValue(SubSeq(z, 2, 3)) <= 23 /\ DigitsValue(SubSeq(z, 5, 6)) <= 59
         THEN LET m == DigitsValue(SubSeq(z, 2, 3)) * 60 + DigitsValue(SubSeq(z, 5, 6))
              IN  [ok |-> TRUE, local |-> FALSE, min |-> IF z[1] = "-" THEN 0 - m ELSE m]
         ELSE [ok |-> FALSE, local |-> FALSE, min |-> 0]

\* Where the clock part ends: the first Z, + or - after the T.
ZoneStart(s) ==
    IF \E i \in 12..Len(s) : s[i] \in {"Z", "+", "-"}
    THEN CHOOSE i \in 12..Len(s) :
            s[i] \in {"Z", "+", "-"} /\ \A j \in 12..(i - 1) : s[j] \notin {"Z", "+", "-"}
    ELSE Len(s) + 1

\* new Date(text) on a server whose local time is tz minutes east of UTC.
DateParse(s, tz) ==
    IF ~DatePartOk(s) THEN InvalidDate
    ELSE LET y == DigitsValue(SubSeq(s, 1, 4))
             m == DigitsValue(SubSeq(s, 6, 7))
             d == DigitsValue(SubSeq(s, 9, 10))
         IN  IF Len(s) = 10 THEN MakeTime(y, m, d, 0, 0)
             ELSE IF s[11] /= "T" THEN InvalidDate
             ELSE LET zs    == ZoneStart(s)
                      clock == ClockMs(SubSeq(s, 12, zs - 1))
                      zone  == ZoneOf(SubSeq(s, zs, Len(s)))
                  IN  IF clock < 0 \/ ~zone.ok THEN InvalidDate
                      ELSE MakeTime(y, m, d, clock, IF zone.local THEN tz ELSE zone.min)

\* Date.prototype.toISOString: YYYY-MM-DDTHH:mm:ss.sssZ, always in UTC.
toISOString(t) ==
    LET c  == CivilFromDays(t.day)
        h  == t.ms \div 3600000
        mi == (t.ms \div 60000) % 60
        se == (t.ms \div 1000) % 60
        ms == t.ms % 1000
    IN  Pad4(c.y) \o <<"-">> \o Pad2(c.m) \o <<"-">> \o Pad2(c.d) \o <<"T">>
        \o Pad2(h) \o <<":">> \o Pad2(mi) \o <<":">> \o Pad2(se) \o <<".">> \o Pad3(ms)
        \o <<"Z">>

\* String.prototype.replace with a string pattern: the first occurrence only.
ReplaceFirst(s, from, to) ==
    IF \E i \in 1..Len(s) : s[i] = from
    THEN LET k == CHOOSE i \in 1..Len(s) : s[i] = from /\ \A j \in 1..(i - 1) : s[j] /= from
         IN  [i \in 1..Len(s) |-> IF i = k THEN to ELSE s[i]]
    ELSE s

\* depositDate.toISOString().slice(0, 19).replace("T", " ")
formattedDate(t) == ReplaceFirst(SubSeq(toISOString(t), 1, 19), "T", " ")

(***************************************************************************)
(* Form data, statements and rows                                          *)
(***************************************************************************)
Create == <<"c", "r", "e", "a", "t", "e">>

Update == <<"u", "p", "d", "a", "t", "e">>

Delete == <<"d", "e", "l", "e", "t", "e">>

\* The eight descriptive fields of a statement.
DescFields ==
    {"owner_name", "depositor_name", "bank_name", "reconciliation",
     "ref_number", "deposit_number", "account_type", "comment"}

\* A submitted form: every field is a text or Null (formData.get).
MkForm(intent, dp_id, amount, deposit_date, old_dp_id, desc) ==
    [intent |-> intent, dp_id |-> dp_id, amount |-> amount,
     deposit_date |-> deposit_date, old_dp_id |-> old_dp_id] @@ desc

NoForm == MkForm(Null, Null, Null, Null, Null, [k \in DescFields |-> Null])

\* Column widths of the statements table (VARCHAR(n)).
ColumnWidth ==
    [dp_id |-> 6, owner_name |-> 100, depositor_name |-> 100, bank_name |-> 100,
     reconciliation |-> 20, ref_number |-> 50, deposit_number |-> 50,
     account_type |-> 50, comment |-> 100]

TextColumns == DOMAIN ColumnWidth

\* A statement handed to query(sql, params).
NoStmt == [sql |-> "NONE"]

SelectAll == [sql |-> "SELECT"]

\* variant: the id is stored as submitted, without trim()
InsertStmt_noTrim(f, date) ==
    [sql |-> "INSERT", amount |-> ToNumber(f.amount), deposit_date |-> date,
     text |-> [k \in TextColumns |-> f[k]]]

InsertStmt(f, date) ==
    [sql |-> "INSERT", amount |-> ToNumber(f.amount), deposit_date |-> date,
     text |-> [k \in TextColumns |-> IF k = "dp_id" THEN Trim(f.dp_id) ELSE f[k]]]

\* variant: SET does not assign dp_id
UpdateStmt_keepId(f) ==
    [sql |-> "UPDATE", amount |-> ToNumber(f.amount),
     text |-> [k \in TextColumns |-> IF k = "dp_id" THEN f.old_dp_id ELSE f[k]],
     where |-> f.old_dp_id]

UpdateStmt(f) ==
    [sql |-> "UPDATE", amount |-> ToNumber(f.amount),
     text |-> [k \in TextColumns |-> f[k]], where |-> f.old_dp_id]

DeleteStmt(f) == [sql |-> "DELETE", where |-> f.old_dp_id]

(***************************************************************************)
(* The statements table: a set of rows.  DECIMAL(10,2) keeps the amount in *)
(* hundredths, rounded half away from zero.                                *)
(***************************************************************************)
ToDecimal2(n) ==
    IF n.scale <= 2 THEN n.mant * Pow10(2 - n.scale)
    ELSE LET p == Pow10(n.scale - 2)
             a == IF n.mant < 0 THEN 0 - n.mant ELSE n.mant
             r == (2 * a + p) \div (2 * p)
         IN  IF n.mant < 0 THEN 0 - r ELSE r

MkRow(text, amount, date) ==
    [dp_id |-> text.dp_id, amount |-> ToDecimal2(amount), deposit_date |-> date]
    @@ [k \in DescFields |-> text[k]]

\* NOT NULL and VARCHAR(n) on the text columns; the failure, or "" if none.
ColumnFailure(text) ==
    IF \E k \in TextColumns : text[k] = Null THEN "ER_BAD_NULL_ERROR"
    ELSE IF \E k \in TextColumns : Len(text[k]) > ColumnWidth[k] THEN "ER_DATA_TOO_LONG"
    ELSE ""

\* conn.query resolves: the rows of a SELECT, or the affectedRows of a write
DbOk(tbl, rows, n) ==
    [ok |-> TRUE, failure |-> "", table |-> tbl, rows |-> rows, affected |-> n]

\* conn.query rejects: nothing is changed
DbFail(tbl, why) ==
    [ok |-> FALSE, failure |-> why, table |-> tbl, rows |-> {}, affected |-> 0]

\* variant: dp_id is not a primary key
DbInsert_noKey(tbl, st) ==
    IF isNaN(st.amount) THEN DbFail(tbl, "ER_BAD_FIELD_ERROR")
    ELSE IF ColumnFailure(st.text) /= "" THEN DbFail(tbl, ColumnFailure(st.text))
    ELSE DbOk(tbl \cup {MkRow(st.text, st.amount, st.deposit_date)}, {}, 1)

\* variant: REPLACE INTO statements, a row of that id is overwritten
DbInsert_replace(tbl, st) ==
    IF isNaN(st.amount) THEN DbFail(tbl, "ER_BAD_FIELD_ERROR")
    ELSE IF ColumnFailure(st.text) /= "" THEN DbFail(tbl, ColumnFailure(st.text))
    ELSE DbOk({r \in tbl : r.dp_id /= st.text.dp_id}
                 \cup {MkRow(st.text, st.amount, st.deposit_date)}, {}, 1)

\* INSERT INTO statements (...) VALUES (...)
DbInsert(tbl, st) ==
    IF isNaN(st.amount) THEN DbFail(tbl, "ER_BAD_FIELD_ERROR")
    ELSE IF ColumnFailure(st.text) /= "" THEN DbFail(tbl, ColumnFailure(st.text))
    ELSE IF \E r \in tbl : r.dp_id = st.text.dp_id THEN DbFail(tbl, "ER_DUP_ENTRY")
    ELSE DbOk(tbl \cup {MkRow(st.text, st.amount, st.deposit_date)}, {}, 1)

\* variant: the amount and the texts are set in every row, not only in the
\* row of the key
DbUpdate_everyRow(tbl, st) ==
    LET hit == {r \in tbl : st.where /= Null /\ r.dp_id = st.where} IN
    IF isNaN(st.amount) THEN DbFail(tbl, "ER_BAD_FIELD_ERROR")
    ELSE IF hit = {} THEN DbOk(tbl, {}, 0)
    ELSE IF ColumnFailure(st.text) /= "" THEN DbFail(tbl, ColumnFailure(st.text))
    ELSE IF \E r \in tbl \ hit : r.dp_id = st.text.dp_id THEN DbFail(tbl, "ER_DUP_ENTRY")
    ELSE DbOk({MkRow([st.text EXCEPT !.dp_id = r.dp_id], st.amount, r.deposit_date) :
                  r \in tbl \ hit}
                 \cup {MkRow(st.text, st.amount, r.deposit_date) : r \in hit},
              {}, Cardinality(tbl))

\* variant: a row that holds the new id is overwritten by the renamed row
DbUpdate_overwrite(tbl, st) ==
    LET hit == {r \in tbl : st.where /= Null /\ r.dp_id = st.where} IN
    IF isNaN(st.amount) THEN DbFail(tbl, "ER_BAD_FIELD_ERROR")
    ELSE IF hit = {} THEN DbOk(tbl, {}, 0)
    ELSE IF ColumnFailure(st.text) /= "" THEN DbFail(tbl, ColumnFailure(st.text))
    ELSE DbOk({r \in tbl \ hit : r.dp_id /= st.text.dp_id}
                 \cup {MkRow(st.text, st.amount, r.deposit_date) : r \in hit},
              {}, Cardinality(hit))

\* variant: the updated row is written anew and its deposit_date falls back
\* to the column default
DbUpdate_dropsDate(tbl, st) ==
    LET hit == {r \in tbl : st.where /= Null /\ r.dp_id = st.where} IN
    IF isNaN(st.amount) THEN DbFail(tbl, "ER_BAD_FIELD_ERROR")
    ELSE IF hit = {} THEN DbOk(tbl, {}, 0)
    ELSE IF ColumnFailure(st.text) /= "" THEN DbFail(tbl, ColumnFailure(st.text))
    ELSE IF \E r \in tbl \ hit : r.dp_id = st.text.dp_id THEN DbFail(tbl, "ER_DUP_ENTRY")
    ELSE DbOk((tbl \ hit) \cup {MkRow(st.text, st.amount, Null) : r \in hit},
              {}, Cardinality(hit))

\* UPDATE statements SET dp_id = ?, amount = ?, ... WHERE dp_id = ?
DbUpdate(tbl, st) ==
    LET hit == {r \in tbl : st.where /= Null /\ r.dp_id = st.where} IN
    IF isNaN(st.amount) THEN DbFail(tbl, "ER_BAD_FIELD_ERROR")
    ELSE IF hit = {} THEN DbOk(tbl, {}, 0)
    ELSE IF ColumnFailure(st.text) /= "" THEN DbFail(tbl, ColumnFailure(st.text))
    ELSE IF \E r \in tbl \ hit : r.dp_id = st.text.dp_id THEN DbFail(tbl, "ER_DUP_ENTRY")
    ELSE DbOk((tbl \ hit) \cup {MkRow(st.text, st.amount, r.deposit_date) : r \in hit},
              {}, Cardinality(hit))

\* variant: DELETE FROM statements, without WHERE
DbDelete_all(tbl, st) == DbOk({}, {}, Cardinality(tbl))

\* DELETE FROM statements WHERE dp_id = ?
DbDelete(tbl, st) ==
    LET hit == {r \in tbl : st.where /= Null /\ r.dp_id = st.where}
    IN  DbOk(tbl \ hit, {}, Cardinality(hit))

\* SELECT * FROM statements
DbSelect(tbl) == DbOk(tbl, tbl, 0)

DbExecute(tbl, st) ==
    CASE st.sql = "INSERT" -> DbInsert(tbl, st)
      [] st.sql = "UPDATE" -> DbUpdate(tbl, st)
      [] st.sql = "DELETE" -> DbDelete(tbl, st)
      [] OTHER -> DbSelect(tbl)

(***************************************************************************)
(* action: the checks of the write path and the statement it issues        *)
(***************************************************************************)
\* variant: the id is trimmed before its length is checked
CreateError_trimFirst(f, tz) ==
    IF Falsy(f.dp_id) \/ Len(Trim(f.dp_id)) /= 6 THEN "DP ID must be 6 characters"
    ELSE IF Falsy(f.amount) \/ isNaN(ToNumber(f.amount)) THEN "Valid amount is required"
    ELSE IF Falsy(f.deposit_date) THEN "Deposit date is required"
    ELSE IF \E k \in DescFields : Falsy(f[k]) THEN "All fields are required"
    ELSE IF ~DateParse(f.deposit_date, tz).valid THEN "Invalid date format"
    ELSE ""

\* variant: the parsed date is not checked
CreateError_noDateCheck(f, tz) ==
    IF Falsy(f.dp_id) \/ Len(f.dp_id) /= 6 THEN "DP ID must be 6 characters"
    ELSE IF Falsy(f.amount) \/ isNaN(ToNumber(f.amount)) THEN "Valid amount is required"
    ELSE IF Falsy(f.deposit_date) THEN "Deposit date is required"
    ELSE IF \E k \in DescFields : Falsy(f[k]) THEN "All fields are required"
    ELSE ""

\* The message of the first failing check of a create, or "" if all pass.
CreateError(f, tz) ==
    IF Falsy(f.dp_id) \/ Len(f.dp_id) /= 6 THEN "DP ID must be 6 characters"
    ELSE IF Falsy(f.amount) \/ isNaN(ToNumber(f.amount)) THEN "Valid amount is required"
    ELSE IF Falsy(f.deposit_date) THEN "Deposit date is required"
    ELSE IF \E k \in DescFields : Falsy(f[k]) THEN "All fields are required"
    ELSE IF ~DateParse(f.deposit_date, tz).valid THEN "Invalid date format"
    ELSE ""

\* The message of the 400 response the action returns before any query, or "".
\* variant: delete does not look at old_dp_id
ActionError_noKeyCheck(f, tz) ==
    IF f.intent = Create THEN CreateError(f, tz) ELSE ""

ActionError(f, tz) ==
    IF f.intent = Create THEN CreateError(f, tz)
    ELSE IF f.intent = Delete /\ Falsy(f.old_dp_id) THEN "Missing original DP ID"
    ELSE ""

\* variant: every intent that is not create or delete is taken for an update
ActionStmt_elseUpdate(f, tz) ==
    IF ActionError(f, tz) /= "" THEN NoStmt
    ELSE IF f.intent = Create
         THEN InsertStmt(f, formattedDate(DateParse(f.deposit_date, tz)))
    ELSE IF f.intent = Delete THEN DeleteStmt(f)
    ELSE UpdateStmt(f)

\* variant: the update branch issues the delete
ActionStmt_updateDeletes(f, tz) ==
    IF ActionError(f, tz) /= "" THEN NoStmt
    ELSE IF f.intent = Create
         THEN InsertStmt(f, formattedDate(DateParse(f.deposit_date, tz)))
    ELSE IF f.intent \in {Update, Delete} THEN DeleteStmt(f)
    ELSE NoStmt

\* The statement the action hands to query, or NoStmt.
ActionStmt(f, tz) ==
    IF ActionError(f, tz) /= "" THEN NoStmt
    ELSE IF f.intent = Create
         THEN InsertStmt(f, formattedDate(DateParse(f.deposit_date, tz)))
    ELSE IF f.intent = Update THEN UpdateStmt(f)
    ELSE IF f.intent = Delete THEN DeleteStmt(f)
    ELSE NoStmt

(***************************************************************************)
(* State                                                                   *)
(***************************************************************************)
VARIABLES
    table,      \* the rows of the statements table
    users,      \* the users table: "absent", "empty" or "filled"
    migration,  \* migrateUsersTable: how far it is and the failure it rejected with
    serverTz,   \* local time zone of the server, minutes east of UTC
    inUse,      \* connections of the pool that are handed out
    pc,         \* per request slot: idle, acquire, exec, release, done
    handler,    \* per request slot: none, loader, action
    req,        \* per request slot: the submitted form
    stmt,       \* per request slot: the statement passed to query
    result,     \* per request slot: what getConnection and conn.query produced
    closeError, \* per request slot: conn.end() failed and was logged
    queryOut,   \* per request slot: how the call of query settled
    resp        \* per request slot: how the handler ended

vars == <<table, users, migration, serverTz, inUse, pc, handler, req, stmt, result, closeError, queryOut, resp>>

\* connectionLimit of the pool
connectionLimit == 5

NoResult == [ok |-> TRUE, failure |-> "", rows |-> {}, affected |-> 0]

\* getConnection or conn.query rejected with the error why
Rejected(why) == [ok |-> FALSE, failure |-> why, rows |-> {}, affected |-> 0]

\* variant: catch logs the error and does not throw it again
QuerySettle_noRethrow(res) == IF res.ok THEN res ELSE NoResult

\* query: return results on success; catch logs the error and throws it again
QuerySettle(res) == res

NoResp ==
    [outcome |-> "none", status |-> 0, success |-> FALSE, error |-> "",
     rows |-> {}, failure |-> ""]

\* json({ success: true })
JsonSuccess == [NoResp EXCEPT !.outcome = "returned", !.status = 200, !.success = TRUE]

\* json({ error: msg }, { status: 400 })
JsonError(msg) == [NoResp EXCEPT !.outcome = "returned", !.status = 400, !.error = msg]

\* json(statements)
JsonRows(rows) == [NoResp EXCEPT !.outcome = "returned", !.status = 200, !.rows = rows]

\* the handler rejects with the failure query re-raised
Threw(why) == [NoResp EXCEPT !.outcome = "threw", !.failure = why]

\* migrateUsersTable has not been called
NotMigrating == [pc |-> "idle", failure |-> ""]

InitOf(clients, zones) ==
    /\ table = {}
    /\ users = "filled"
    /\ migration = NotMigrating
    /\ serverTz \in zones
    /\ inUse = 0
    /\ pc = [c \in clients |-> "idle"]
    /\ handler = [c \in clients |-> "none"]
    /\ req = [c \in clients |-> NoForm]
    /\ stmt = [c \in clients |-> NoStmt]
    /\ result = [c \in clients |-> NoResult]
    /\ closeError = [c \in clients |-> FALSE]
    /\ queryOut = [c \in clients |-> NoResult]
    /\ resp = [c \in clients |-> NoResp]

(***************************************************************************)
(* How a handler ends once query has resolved or rejected                  *)
(***************************************************************************)
\* loader: the rows, or an empty collection when query raised.
\* variant: the loader has no catch
LoaderOutcome_rethrow(res) == IF res.ok THEN JsonRows(res.rows) ELSE Threw(res.failure)

LoaderOutcome(res) == IF res.ok THEN JsonRows(res.rows) ELSE JsonRows({})

\* variant: the action catches the failure and reports success
ActionOutcome_swallow(res) == JsonSuccess

\* action: the success payload, or the failure of query passed on.
\* variant: the action catches the failure and reports it as an error payload
ActionOutcome_report(res) == IF res.ok THEN JsonSuccess ELSE JsonError(res.failure)

ActionOutcome(res) == IF res.ok THEN JsonSuccess ELSE Threw(res.failure)

HandlerOutcome(h, res) == IF h = "loader" THEN LoaderOutcome(res) ELSE ActionOutcome(res)

(***************************************************************************)
(* Steps                                                                   *)
(***************************************************************************)
\* loader runs up to its await query("SELECT * FROM statements").
LoaderStart(c) ==
    /\ pc[c] = "idle"
    /\ handler' = [handler EXCEPT ![c] = "loader"]
    /\ stmt' = [stmt EXCEPT ![c] = SelectAll]
    /\ pc' = [pc EXCEPT ![c] = "acquire"]
    /\ UNCHANGED <<table, users, migration, serverTz, inUse, req, result, closeError, queryOut, resp>>

\* action runs on form f up to its first await query, or to its return.
ActionStart(c, f) ==
    /\ pc[c] = "idle"
    /\ handler' = [handler EXCEPT ![c] = "action"]
    /\ req' = [req EXCEPT ![c] = f]
    /\ IF ActionError(f, serverTz) /= ""
       THEN /\ resp' = [resp EXCEPT ![c] = JsonError(ActionError(f, serverTz))]
            /\ pc' = [pc EXCEPT ![c] = "done"]
            /\ UNCHANGED stmt
       ELSE IF ActionStmt(f, serverTz) = NoStmt
       THEN /\ resp' = [resp EXCEPT ![c] = JsonSuccess]
            /\ pc' = [pc EXCEPT ![c] = "done"]
            /\ UNCHANGED stmt
       ELSE /\ stmt' = [stmt EXCEPT ![c] = ActionStmt(f, serverTz)]
            /\ pc' = [pc EXCEPT ![c] = "acquire"]
            /\ UNCHANGED resp
    /\ UNCHANGED <<table, users, migration, serverTz, inUse, result, closeError, queryOut>>

\* variant: a pool without connectionLimit
GetConnection_noLimit(c) ==
    /\ pc[c] = "acquire"
    /\ inUse' = inUse + 1
    /\ pc' = [pc EXCEPT ![c] = "exec"]
    /\ UNCHANGED <<table, users, migration, serverTz, handler, req, stmt, result, closeError, queryOut, resp>>

\* query: conn = await pool.getConnection(), which waits while the pool is exhausted.
GetConnection(c) ==
    /\ pc[c] = "acquire"
    /\ inUse < connectionLimit
    /\ inUse' = inUse + 1
    /\ pc' = [pc EXCEPT ![c] = "exec"]
    /\ UNCHANGED <<table, users, migration, serverTz, handler, req, stmt, result, closeError, queryOut, resp>>

\* query: getConnection rejects; catch logs and rethrows, finally has no conn;
\* the handler runs to its end.
GetConnectionFails(c) ==
    /\ pc[c] = "acquire"
    /\ result' = [result EXCEPT ![c] = Rejected("ER_GET_CONNECTION")]
    /\ queryOut' = [queryOut EXCEPT ![c] = QuerySettle(result'[c])]
    /\ resp' = [resp EXCEPT ![c] = HandlerOutcome(handler[c], queryOut'[c])]
    /\ pc' = [pc EXCEPT ![c] = "done"]
    /\ UNCHANGED <<table, users, migration, serverTz, inUse, handler, req, stmt, closeError>>

\* query: await conn.query(sql, params); the database runs the statement.
ConnQuery(c) ==
    /\ pc[c] = "exec"
    /\ LET r == DbExecute(table, stmt[c]) IN
       /\ table' = r.table
       /\ result' = [result EXCEPT ![c] =
                        [ok |-> r.ok, failure |-> r.failure, rows |-> r.rows,
                         affected |-> r.affected]]
    /\ pc' = [pc EXCEPT ![c] = "release"]
    /\ UNCHANGED <<users, migration, serverTz, inUse, handler, req, stmt, closeError, queryOut, resp>>

\* variant: no finally; a failed conn.query settles query at once
ConnQueryFails_noFinally(c) ==
    /\ pc[c] = "exec"
    /\ result' = [result EXCEPT ![c] = Rejected("ER_CONNECTION_LOST")]
    /\ queryOut' = [queryOut EXCEPT ![c] = QuerySettle(result'[c])]
    /\ resp' = [resp EXCEPT ![c] = HandlerOutcome(handler[c], queryOut'[c])]
    /\ pc' = [pc EXCEPT ![c] = "done"]
    /\ UNCHANGED <<table, users, migration, serverTz, inUse, handler, req, stmt, closeError>>

\* query: conn.query rejects because the connection broke; nothing was run.
ConnQueryFails(c) ==
    /\ pc[c] = "exec"
    /\ result' = [result EXCEPT ![c] = Rejected("ER_CONNECTION_LOST")]
    /\ pc' = [pc EXCEPT ![c] = "release"]
    /\ UNCHANGED <<table, users, migration, serverTz, inUse, handler, req, stmt, closeError, queryOut, resp>>

\* variant: the connection is never given back to the pool
ConnEnd_leak(c) ==
    /\ pc[c] = "release"
    /\ queryOut' = [queryOut EXCEPT ![c] = QuerySettle(result[c])]
    /\ resp' = [resp EXCEPT ![c] = HandlerOutcome(handler[c], queryOut'[c])]
    /\ pc' = [pc EXCEPT ![c] = "done"]
    /\ UNCHANGED <<table, users, migration, serverTz, inUse, handler, req, stmt, result, closeError>>

\* query: finally { await conn.end() } gives the connection back; then query
\* resolves or rejects and the handler runs to its end.
ConnEnd(c) ==
    /\ pc[c] = "release"
    /\ inUse' = inUse - 1
    /\ queryOut' = [queryOut EXCEPT ![c] = QuerySettle(result[c])]
    /\ resp' = [resp EXCEPT ![c] = HandlerOutcome(handler[c], queryOut'[c])]
    /\ pc' = [pc EXCEPT ![c] = "done"]
    /\ UNCHANGED <<table, users, migration, serverTz, handler, req, stmt, result, closeError>>

\* variant: finally without the inner try/catch; the failure of conn.end()
\* becomes the outcome of query
ConnEndFails_throws(c) ==
    /\ pc[c] = "release"
    /\ inUse' = inUse - 1
    /\ closeError' = [closeError EXCEPT ![c] = TRUE]
    /\ queryOut' = [queryOut EXCEPT ![c] = Rejected("ER_CLOSE_FAILED")]
    /\ resp' = [resp EXCEPT ![c] = HandlerOutcome(handler[c], queryOut'[c])]
    /\ pc' = [pc EXCEPT ![c] = "done"]
    /\ UNCHANGED <<table, users, migration, serverTz, handler, req, stmt, result>>

\* query: conn.end() rejects; the inner catch logs it and drops it (the pool
\* discards the connection), then query settles as it would have.
ConnEndFails(c) ==
    /\ pc[c] = "release"
    /\ inUse' = inUse - 1
    /\ closeError' = [closeError EXCEPT ![c] = TRUE]
    /\ queryOut' = [queryOut EXCEPT ![c] = QuerySettle(result[c])]
    /\ resp' = [resp EXCEPT ![c] = HandlerOutcome(handler[c], queryOut'[c])]
    /\ pc' = [pc EXCEPT ![c] = "done"]
    /\ UNCHANGED <<table, users, migration, serverTz, handler, req, stmt, result>>

\* variant: the form and the statement of a request outlive it
Respond_keepsForm(c) ==
    /\ pc[c] = "done"
    /\ pc' = [pc EXCEPT ![c] = "idle"]
    /\ handler' = [handler EXCEPT ![c] = "none"]
    /\ result' = [result EXCEPT ![c] = NoResult]
    /\ closeError' = [closeError EXCEPT ![c] = FALSE]
    /\ queryOut' = [queryOut EXCEPT ![c] = NoResult]
    /\ resp' = [resp EXCEPT ![c] = NoResp]
    /\ UNCHANGED <<table, users, migration, serverTz, inUse, req, stmt>>

\* The response leaves; the slot is free for the next request.
Respond(c) ==
    /\ pc[c] = "done"
    /\ pc' = [pc EXCEPT ![c] = "idle"]
    /\ handler' = [handler EXCEPT ![c] = "none"]
    /\ req' = [req EXCEPT ![c] = NoForm]
    /\ stmt' = [stmt EXCEPT ![c] = NoStmt]
    /\ result' = [result EXCEPT ![c] = NoResult]
    /\ closeError' = [closeError EXCEPT ![c] = FALSE]
    /\ queryOut' = [queryOut EXCEPT ![c] = NoResult]
    /\ resp' = [resp EXCEPT ![c] = NoResp]
    /\ UNCHANGED <<table, users, migration, serverTz, inUse>>

\* migrateUsersTable: await query("DROP TABLE IF EXISTS users") resolves.
MigrateDrop ==
    /\ migration.pc \in {"idle", "resolved", "rejected"}
    /\ inUse < connectionLimit
    /\ users' = "absent"
    /\ migration' = [pc |-> "dropped", failure |-> ""]
    /\ UNCHANGED <<table, serverTz, inUse, pc, handler, req, stmt, result, closeError,
                   queryOut, resp>>

\* migrateUsersTable: the DROP rejects; catch logs the error and throws it again.
MigrateDropFails ==
    /\ migration.pc \in {"idle", "resolved", "rejected"}
    /\ \E why \in {"ER_GET_CONNECTION", "ER_CONNECTION_LOST"} :
          migration' = [pc |-> "rejected", failure |-> why]
    /\ UNCHANGED <<table, users, serverTz, inUse, pc, handler, req, stmt, result,
                   closeError, queryOut, resp>>

\* migrateUsersTable: await query("CREATE TABLE users (...)") resolves and the
\* helper returns.
MigrateCreate ==
    /\ migration.pc = "dropped"
    /\ inUse < connectionLimit
    /\ users' = "empty"
    /\ migration' = [pc |-> "resolved", failure |-> ""]
    /\ UNCHANGED <<table, serverTz, inUse, pc, handler, req, stmt, result, closeError,
                   queryOut, resp>>

\* migrateUsersTable: the CREATE rejects; catch logs the error and throws it again.
MigrateCreateFails ==
    /\ migration.pc = "dropped"
    /\ \E why \in {"ER_GET_CONNECTION", "ER_CONNECTION_LOST"} :
          migration' = [pc |-> "rejected", failure |-> why]
    /\ UNCHANGED <<table, users, serverTz, inUse, pc, handler, req, stmt, result,
                   closeError, queryOut, resp>>

NextOf(clients, forms) ==
    \E c \in clients :
        \/ LoaderStart(c)
        \/ \E f \in forms : ActionStart(c, f)
        \/ GetConnection(c)
        \/ GetConnectionFails(c)
        \/ ConnQuery(c)
        \/ ConnQueryFails(c)
        \/ ConnEnd(c)
        \/ ConnEndFails(c)
        \/ Respond(c)

(***************************************************************************)
(* Inputs                                                                  *)
(***************************************************************************)
IdA == <<"A", "B", "C", "1", "2", "3">>

IdB == <<"X", "Y", "Z", "7", "8", "9">>

IdShort == <<"A", "B", "C">>

IdLong == <<"A", "B", "C", "1", "2", "3", "4">>

\* six characters only with its blanks; ABCD once trimmed
IdBlankPad == <<" ", "A", "B", "C", "D", " ">>

\* IdA with a blank on either side
IdPadded == <<" ">> \o IdA \o <<" ">>

IdInputs == {Null, <<>>, IdShort, IdLong, IdA, IdBlankPad, IdPadded}

AmountPlain == <<"1", "2", ".", "5">>

AmountBlank == <<" ", " ">>

AmountText == <<"1", "2", "a">>

AmountInputs == {Null, <<>>, AmountBlank, AmountText, AmountPlain}

\* what <input type="datetime-local"> submits: no offset
DateLocal == <<"2", "0", "2", "4", "-", "0", "1", "-", "1", "5", "T", "1", "0", ":", "3", "0">>

DateBadMonth == <<"2", "0", "2", "4", "-", "1", "3", "-", "1", "5", "T", "1", "0", ":", "3", "0">>

DateWords == <<"s", "o", "o", "n">>

\* an instant given in UTC, with seconds and milliseconds
DateZulu ==
    <<"2", "0", "2", "4", "-", "0", "1", "-", "1", "5", "T",
      "2", "3", ":", "5", "9", ":", "5", "9", ".", "9", "9", "9", "Z">>

DateInputs == {Null, <<>>, DateWords, DateBadMonth, DateLocal, DateZulu}

DescA == [k \in DescFields |-> <<"a">>]

DescB == [k \in DescFields |-> <<"b">>]

\* all fields present, one absent, one empty
DescInputs ==
    {DescA, [DescA EXCEPT !["owner_name"] = Null], [DescA EXCEPT !["comment"] = <<>>]}

CreateForms ==
    {MkForm(Create, id, am, dt, Null, d) :
        id \in IdInputs, am \in AmountInputs, dt \in DateInputs, d \in DescInputs}

UpdateForms ==
    {MkForm(Update, id, am, date, old, DescB) :
        id \in {Null, IdB}, am \in {AmountPlain, AmountText},
        date \in {Null, DateZulu}, old \in {Null, IdA}}

DeleteForms ==
    {MkForm(Delete, Null, Null, Null, old, [k \in DescFields |-> Null]) :
        old \in {Null, <<>>, IdA}}

\* an intent that is absent, or none of create, update, delete
OtherForms ==
    {MkForm(in, IdA, AmountPlain, DateLocal, IdA, DescA) : in \in {Null, <<"n", "o">>}}

Forms == CreateForms \cup UpdateForms \cup DeleteForms \cup OtherForms

\* the time zones the server may run in, minutes east of UTC
Zones == {0, 180}

\* one request at a time
OneClient == {1}

Init == InitOf(OneClient, Zones)

Next == NextOf(OneClient, Forms)

Spec == Init /\ [][Next]_vars

(***************************************************************************)
(* Concurrent requests: NumClients slots over a small set of forms         *)
(***************************************************************************)
NumClients == 2

ConcClients == 1..NumClients

ConcForms ==
    {MkForm(Create, id, AmountPlain, DateLocal, Null, DescA) : id \in {IdA, IdB}}
    \cup {MkForm(Update, IdB, AmountPlain, Null, IdA, DescB)}
    \cup {MkForm(Delete, Null, Null, Null, IdA, [k \in DescFields |-> Null])}

InitConc == InitOf(ConcClients, {0})

NextConc == NextOf(ConcClients, ConcForms)

SpecConc == InitConc /\ [][NextConc]_vars

(***************************************************************************)
(* More requests than the pool has connections: NumReaders readers and one *)
(* writer on an empty table.  The connection can break while a statement   *)
(* runs; the other failures are left to Spec and SpecConc.                 *)
(***************************************************************************)
NumReaders == 5

Readers == 1..NumReaders

Writer == NumReaders + 1

PoolClients == Readers \cup {Writer}

PoolForms == {MkForm(Delete, Null, Null, Null, IdA, [k \in DescFields |-> Null])}

InitPool == InitOf(PoolClients, {0})

NextPool ==
    \/ \E c \in Readers : LoaderStart(c)
    \/ \E f \in PoolForms : ActionStart(Writer, f)
    \/ \E c \in PoolClients :
        \/ GetConnection(c)
        \/ ConnQuery(c)
        \/ ConnQueryFails(c)
        \/ ConnEnd(c)
        \/ Respond(c)

SpecPool == InitPool /\ [][NextPool]_vars

\* A set of concurrent requests, one per slot, none of which meets a broken
\* connection: the steps of the pool specification up to each response.
NextOnce ==
    \/ \E c \in Readers : LoaderStart(c)
    \/ \E f \in PoolForms : ActionStart(Writer, f)
    \/ \E c \in PoolClients :
        \/ GetConnection(c)
        \/ ConnQuery(c)
        \/ ConnEnd(c)

\* Scheduling: a call that can get a connection does get it, the database
\* answers every statement it was sent, and conn.end() completes.  Requests
\* arrive without any such promise.
FairPool ==
    \A c \in PoolClients :
        /\ WF_vars(GetConnection(c))
        /\ WF_vars(ConnQuery(c))
        /\ WF_vars(ConnEnd(c))

SpecPoolFair == InitPool /\ [][NextOnce]_vars /\ FairPool

(***************************************************************************)
(* The request handlers next to the migration helper.                      *)
(***************************************************************************)
MigrateForms ==
    {MkForm(Create, IdA, AmountPlain, DateLocal, Null, DescA),
     MkForm(Delete, Null, Null, Null, IdA, [k \in DescFields |-> Null])}

InitMigrate == InitOf(OneClient, {0})

NextMigrate ==
    \/ NextOf(OneClient, MigrateForms)
    \/ MigrateDrop
    \/ MigrateDropFails
    \/ MigrateCreate
    \/ MigrateCreateFails

SpecMigrate == InitMigrate /\ [][NextMigrate]_vars

(***************************************************************************)
(* Properties                                                              *)
(***************************************************************************)
Slots == DOMAIN pc

\* slot c holds a create request that the action has started on
IsCreate(c) == pc[c] /= "idle" /\ handler[c] = "action" /\ req[c].intent = Create

\* slot c holds a write request whose handler has ended
WriteDone(c) == pc[c] = "done" /\ handler[c] = "action"

\* a payload { error: message } with status 400
IsErrorPayload(r) ==
    r.outcome = "returned" /\ r.status = 400 /\ r.error /= "" /\ ~r.success

\* the payload { success: true } with status 200
IsSuccessPayload(r) ==
    r.outcome = "returned" /\ r.status = 200 /\ r.success /\ r.error = ""

\* this step is the action starting on a create in slot c
CreateArrives(c) == pc[c] = "idle" /\ handler'[c] = "action" /\ req'[c].intent = Create

\* this step ends the request of slot c with an error payload and without a query
RejectedWith(c, msg) ==
    /\ resp'[c] = JsonError(msg)
    /\ pc'[c] = "done"
    /\ stmt'[c] = NoStmt
    /\ table' = table

\* text that is no number: absent, empty, blank or not a numeric literal
NotANumber(v) == v = Null \/ Trim(v) = <<>> \/ isNaN(ToNumber(v))

\* text that does not parse to a timestamp on this server
Unparseable(v) == Falsy(v) \/ ~DateParse(v, serverTz).valid

AllDescPresent(f) == \A k \in DescFields : ~Falsy(f[k])

\* C1: when the database runs the insert of a create that passed validation on
\* a table with no row of that id, the insert succeeds and the rows a read
\* returns from then on include a row whose dp_id is the trimmed submitted id;
\* and a read whose query succeeds returns exactly the rows of the table.
C1_CreateThenRead ==
    [][\A c \in Slots :
        /\ ( /\ pc[c] = "exec" /\ pc'[c] = "release" /\ stmt[c].sql = "INSERT"
             /\ result'[c].failure /= "ER_CONNECTION_LOST"
             /\ ~\E r \in table : r.dp_id = Trim(req[c].dp_id) )
           => ( /\ result'[c].ok
                /\ \E r \in DbSelect(table').rows : r.dp_id = Trim(req[c].dp_id) )
        /\ ( /\ handler[c] = "loader" /\ pc[c] = "release" /\ pc'[c] = "done"
             /\ result[c].ok )
           => ( resp'[c] = JsonRows(table) /\ result[c].rows = table )
      ]_vars

\* C1 witness: a create with a blank-padded id has returned success and its
\* row is in the table under the trimmed id.
C1_Witness ==
    \E c \in Slots :
        /\ WriteDone(c) /\ req[c].intent = Create
        /\ req[c].dp_id /= Trim(req[c].dp_id)
        /\ IsSuccessPayload(resp[c])
        /\ \E r \in table : r.dp_id = Trim(req[c].dp_id)

\* The wall clock reading a date text carries, as YYYY-MM-DD HH:MM:SS.
SubmittedClock(s) ==
    LET day  == SubSeq(s, 1, 10)
        hhmm == IF Len(s) >= 16 THEN SubSeq(s, 12, 16) ELSE <<"0", "0", ":", "0", "0">>
        ss   == IF Len(s) >= 19 /\ s[17] = ":" THEN SubSeq(s, 18, 19) ELSE <<"0", "0">>
    IN  day \o <<" ">> \o hhmm \o <<":">> \o ss

\* C2 (as claimed): the deposit_date of the row a create inserts is the
\* submitted calendar date and clock time, cut to whole seconds.
C2_StoredDateIsSubmitted ==
    \A c \in Slots :
        (IsCreate(c) /\ pc[c] = "release" /\ result[c].ok)
        => \E r \in table :
              /\ r.dp_id = Trim(req[c].dp_id)
              /\ r.deposit_date = SubmittedClock(req[c].deposit_date)

\* C3: a create whose dp_id is absent or not 6 characters long ends with the
\* error "DP ID must be 6 characters", without a query and with the table as
\* it was, whatever the other fields are.
C3_BadIdRejected ==
    [][\A c \in Slots :
        (CreateArrives(c) /\ (Falsy(req'[c].dp_id) \/ Len(req'[c].dp_id) /= 6))
        => RejectedWith(c, "DP ID must be 6 characters")
      ]_vars

\* C3 witness: a create with an id of 8 characters, all other fields valid,
\* was rejected with the id error while the table holds rows.
C3_Witness ==
    \E c \in Slots :
        /\ WriteDone(c) /\ req[c].intent = Create
        /\ req[c].dp_id = IdPadded /\ req[c].amount = AmountPlain
        /\ req[c].deposit_date = DateLocal /\ AllDescPresent(req[c])
        /\ resp[c] = JsonError("DP ID must be 6 characters")
        /\ table /= {}

\* C4 (as claimed): a create whose other fields are valid is accepted exactly
\* when its trimmed dp_id has 6 characters.
C4_LengthCheckedAfterTrim ==
    \A c \in Slots :
        ( /\ IsCreate(c)
          /\ ~NotANumber(req[c].amount) /\ ~Unparseable(req[c].deposit_date)
          /\ AllDescPresent(req[c]) )
        => ( stmt[c].sql = "INSERT"
             <=> (req[c].dp_id /= Null /\ Len(Trim(req[c].dp_id)) = 6) )

\* C5 (as claimed): every row of the table has a dp_id of exactly 6 characters.
C5_RowIdsHaveSixChars == \A r \in table : Len(r.dp_id) = 6

\* C6 (as claimed): a create whose amount is no number ends with an error
\* payload and without a query.
C6_BadAmountRejected ==
    \A c \in Slots :
        (IsCreate(c) /\ NotANumber(req[c].amount))
        => (pc[c] = "done" /\ IsErrorPayload(resp[c]) /\ stmt[c] = NoStmt)

\* C7: a create whose deposit_date does not parse to a timestamp ends with an
\* error payload, without a query and with the table as it was.
C7_BadDateRejected ==
    [][\A c \in Slots :
        (CreateArrives(c) /\ (Falsy(req'[c].deposit_date)
                              \/ ~DateParse(req'[c].deposit_date, serverTz).valid))
        => ( /\ IsErrorPayload(resp'[c])
             /\ pc'[c] = "done" /\ stmt'[c] = NoStmt /\ table' = table )
      ]_vars

\* C7 witness: a create that is valid but for its date text, which is no
\* date, was rejected with "Invalid date format".
C7_Witness ==
    \E c \in Slots :
        /\ WriteDone(c) /\ req[c].intent = Create
        /\ req[c].dp_id = IdA /\ req[c].amount = AmountPlain /\ AllDescPresent(req[c])
        /\ req[c].deposit_date \in {DateWords, DateBadMonth}
        /\ resp[c] = JsonError("Invalid date format")
        /\ table /= {}

\* The message of the first violated precondition of a create, in the order
\* id length, amount numeric, date present, fields present, date parseable.
FirstViolated(f) ==
    IF Falsy(f.dp_id) \/ Len(f.dp_id) /= 6 THEN "DP ID must be 6 characters"
    ELSE IF NotANumber(f.amount) THEN "Valid amount is required"
    ELSE IF Falsy(f.deposit_date) THEN "Deposit date is required"
    ELSE IF ~AllDescPresent(f) THEN "All fields are required"
    ELSE IF Unparseable(f.deposit_date) THEN "Invalid date format"
    ELSE ""

\* C8 (as claimed): a create that violates preconditions ends with the error
\* payload of the first violated one.
C8_FirstViolatedReported ==
    \A c \in Slots :
        (IsCreate(c) /\ FirstViolated(req[c]) /= "")
        => (pc[c] = "done" /\ resp[c] = JsonError(FirstViolated(req[c])))

\* C9 (as claimed): every write request ends with {success: true} and status
\* 200 or with {error: message} and status 400.
C9_WriteEndsWithPayload ==
    \A c \in Slots :
        WriteDone(c) => (IsSuccessPayload(resp[c]) \/ IsErrorPayload(resp[c]))

\* C9 (amended): a write request whose query did not raise ends with
\* {success: true} and status 200 or {error: message} and status 400; when
\* query raised, the action rejects with that failure and returns no payload.
C9_WriteEndsWithPayloadOrThrows ==
    \A c \in Slots :
        WriteDone(c) =>
            IF result[c].ok
            THEN IsSuccessPayload(resp[c]) \/ IsErrorPayload(resp[c])
            ELSE resp[c] = Threw(result[c].failure)

\* C9 witness: the database refused a write and the action rejected with it.
C9_Witness ==
    \E c \in Slots :
        /\ WriteDone(c) /\ ~result[c].ok
        /\ result[c].failure \notin {"ER_GET_CONNECTION", "ER_CONNECTION_LOST"}
        /\ resp[c].outcome = "threw"

\* C10: no two rows of the table have the same dp_id.
C10_UniqueIds == \A r1, r2 \in table : r1.dp_id = r2.dp_id => r1 = r2

\* C10 witness: two rows are in the table and an insert of a present id was
\* refused while another request is in flight.
C10_Witness ==
    /\ Cardinality(table) = 2
    /\ \E c, d \in Slots :
          /\ c /= d /\ pc[d] \in {"acquire", "exec", "release"}
          /\ stmt[c].sql = "INSERT" /\ result[c].failure = "ER_DUP_ENTRY"

\* this step is the database running the statement of slot c
DbRuns(c, sql) ==
    /\ pc[c] = "exec" /\ pc'[c] = "release" /\ stmt[c].sql = sql
    /\ result'[c].failure /= "ER_CONNECTION_LOST"

\* this step is query settling in slot c after the database ran its statement
Settles(c, sql) == pc[c] = "release" /\ pc'[c] = "done" /\ stmt[c].sql = sql

\* the table has a row whose dp_id is key
HasKey(tbl, key) == \E r \in tbl : r.dp_id = key

\* C11: when the database runs an update whose old_dp_id names a key that no
\* row has, the statement is accepted and every row is left as it was, and the
\* request then returns {success: true}.
C11_UpdateOfMissingKeyIsNoOp ==
    [][\A c \in Slots :
        /\ ( /\ DbRuns(c, "UPDATE") /\ stmt[c].where /= Null
             /\ ~HasKey(table, stmt[c].where) )
           => (table' = table /\ result'[c].ok)
        /\ ( /\ Settles(c, "UPDATE") /\ stmt[c].where /= Null
             /\ result[c].ok /\ result[c].affected = 0 )
           => resp'[c] = JsonSuccess
      ]_vars

\* this step is the action starting on a request with this intent in slot c
Arrives(c, intent) == pc[c] = "idle" /\ handler'[c] = "action" /\ req'[c].intent = intent

\* C12: a delete whose old_dp_id is absent or empty ends with the error
\* "Missing original DP ID", without a query and with every row still there.
C12_DeleteWithoutKeyRejected ==
    [][\A c \in Slots :
        (Arrives(c, Delete) /\ req'[c].old_dp_id \in {Null, <<>>})
        => RejectedWith(c, "Missing original DP ID")
      ]_vars

\* C12 witness: a delete with an empty old_dp_id was refused on a table that
\* has rows.
C12_Witness ==
    \E c \in Slots :
        /\ WriteDone(c) /\ req[c].intent = Delete /\ req[c].old_dp_id = <<>>
        /\ resp[c] = JsonError("Missing original DP ID")
        /\ stmt[c] = NoStmt /\ table /= {}

\* C13: a delete with an old_dp_id hands the database a DELETE for that key;
\* when the database runs it, the row with that key is gone and every other
\* row is there unchanged (so a key that no row has leaves the table as it
\* was), and the request then returns {success: true}.
C13_DeleteRemovesThatRow ==
    [][\A c \in Slots :
        /\ (Arrives(c, Delete) /\ req'[c].old_dp_id \notin {Null, <<>>})
           => (stmt'[c].sql = "DELETE" /\ stmt'[c].where = req'[c].old_dp_id)
        /\ DbRuns(c, "DELETE")
           => ( /\ result'[c].ok
                /\ table' = {r \in table : r.dp_id /= req[c].old_dp_id}
                /\ (~HasKey(table, req[c].old_dp_id) => table' = table) )
        /\ (Settles(c, "DELETE") /\ result[c].ok) => resp'[c] = JsonSuccess
      ]_vars

\* C13 witness: a delete has removed one row and another row is still there.
C13_Witness ==
    \E c \in Slots :
        /\ pc[c] = "release" /\ stmt[c].sql = "DELETE" /\ result[c].affected = 1
        /\ table /= {} /\ ~HasKey(table, req[c].old_dp_id)

\* the values of form f fit the columns: numeric amount, every text present
\* and within its width
FitsColumns(f) ==
    /\ ~NotANumber(f.amount)
    /\ \A k \in TextColumns : f[k] /= Null /\ Len(f[k]) <= ColumnWidth[k]

\* C14: when the database runs an update that carries a value for every
\* field, whose old_dp_id is the id of a row and whose dp_id is another id
\* that no row has, then the rows a read returns from then on hold a row under
\* the new id with the submitted amount and texts, and none under the old id.
C14_UpdateMovesRow ==
    [][\A c \in Slots :
        ( /\ DbRuns(c, "UPDATE") /\ FitsColumns(req[c])
          /\ HasKey(table, req[c].old_dp_id)
          /\ req[c].dp_id /= req[c].old_dp_id
          /\ ~HasKey(table, req[c].dp_id) )
        => ( /\ result'[c].ok
             /\ ~HasKey(DbSelect(table').rows, req[c].old_dp_id)
             /\ \E r \in DbSelect(table').rows :
                   /\ r.dp_id = req[c].dp_id
                   /\ r.amount = ToDecimal2(ToNumber(req[c].amount))
                   /\ \A k \in DescFields : r[k] = req[c][k] )
      ]_vars

\* C14 witness: a row created as ABC123 with texts a has been updated to
\* XYZ789 with texts b; no row ABC123 is left.
C14_Witness ==
    \E c \in Slots :
        /\ pc[c] = "release" /\ stmt[c].sql = "UPDATE" /\ result[c].affected = 1
        /\ req[c].old_dp_id = IdA /\ req[c].dp_id = IdB
        /\ ~HasKey(table, IdA)
        /\ \E r \in table : r.dp_id = IdB /\ \A k \in DescFields : r[k] = DescB[k]

\* C15: a write request whose intent is absent, or is none of create, update
\* and delete, issues no statement, leaves the table as it was and returns
\* {success: true}.
C15_UnknownIntentIsNoOp ==
    [][\A c \in Slots :
        ( /\ pc[c] = "idle" /\ handler'[c] = "action"
          /\ req'[c].intent \notin {Create, Update, Delete} )
        => ( /\ resp'[c] = JsonSuccess /\ pc'[c] = "done"
             /\ stmt'[c] = NoStmt /\ table' = table /\ inUse' = inUse )
      ]_vars

\* C15 witness: a request with the intent "no" and a full set of fields has
\* returned success without a statement.
C15_Witness ==
    \E c \in Slots :
        /\ WriteDone(c) /\ req[c].intent = <<"n", "o">> /\ req[c].dp_id = IdA
        /\ resp[c] = JsonSuccess /\ stmt[c] = NoStmt /\ table /= {}

\* slot c holds a read request whose loader has ended
ReadDone(c) == pc[c] = "done" /\ handler[c] = "loader"

\* C16: the loader always returns a collection: the empty one when getting the
\* connection or running the SELECT failed, and exactly the rows of the table
\* when the query succeeded.
C16_LoaderFailsOpen ==
    \A c \in Slots :
        ReadDone(c) =>
            /\ resp[c].outcome = "returned"
            /\ IF result[c].ok THEN resp[c] = JsonRows(table)
                               ELSE resp[c] = JsonRows({})

\* C16 witness: the table has rows, the SELECT failed, and the loader returned
\* the empty collection.
C16_Witness ==
    \E c \in Slots :
        /\ ReadDone(c) /\ result[c].failure = "ER_CONNECTION_LOST"
        /\ table /= {} /\ resp[c] = JsonRows({})

\* C17: when query rejects during a write, the action does not return
\* {success: true} nor any other payload: it rejects with that failure, in the
\* step in which query rejected.
C17_WriteFailsLoud ==
    [][\A c \in Slots :
        ( /\ handler[c] = "action" /\ pc[c] \in {"acquire", "release"}
          /\ pc'[c] = "done" /\ ~queryOut'[c].ok )
        => ( /\ resp'[c].outcome = "threw"
             /\ resp'[c].failure = queryOut'[c].failure
             /\ ~resp'[c].success )
      ]_vars

\* C17 witness: a write could not get a connection and the action rejected.
C17_Witness ==
    \E c \in Slots :
        /\ WriteDone(c) /\ queryOut[c].failure = "ER_GET_CONNECTION"
        /\ resp[c] = Threw("ER_GET_CONNECTION") /\ table /= {}

\* C19: a call of query whose getConnection or conn.query rejected rejects
\* with that same failure and resolves with no rows; a call whose conn.query
\* resolved resolves with its result.
C19_QueryRethrows ==
    \A c \in Slots :
        (pc[c] = "done" /\ stmt[c] /= NoStmt) =>
            IF result[c].ok
            THEN queryOut[c] = result[c]
            ELSE /\ ~queryOut[c].ok
                 /\ queryOut[c].failure = result[c].failure
                 /\ queryOut[c].rows = {}

\* C19 witness: the database refused an insert as a duplicate, the release of
\* the connection failed too, and query rejected with the duplicate error.
C19_Witness ==
    \E c \in Slots :
        /\ pc[c] = "done" /\ stmt[c].sql = "INSERT" /\ closeError[c]
        /\ result[c].failure = "ER_DUP_ENTRY"
        /\ ~queryOut[c].ok /\ queryOut[c].failure = "ER_DUP_ENTRY"

\* the slots whose call of query holds a connection
Holding == {c \in Slots : pc[c] \in {"exec", "release"}}

\* C18: the connections out of the pool are exactly those of the calls of
\* query that have got one and have not settled yet: a call that has resolved
\* or rejected, after a success or a failure, holds none.
C18_SettledHoldsNone == inUse = Cardinality(Holding)

\* C18 witness: a call whose statement failed on a broken connection has
\* rejected while another call holds its connection, which is the only one out.
C18_Witness ==
    \E c, d \in Slots :
        /\ pc[c] = "done" /\ result[c].failure = "ER_CONNECTION_LOST"
        /\ pc[d] = "exec" /\ inUse = 1

\* C20: never more than connectionLimit connections are out of the pool, and a
\* call of query that waits for one while connectionLimit are out does not get
\* to run its statement in that state: it is still waiting after the step.
C20_PoolBound ==
    [][ /\ inUse' <= connectionLimit
        /\ Cardinality(Holding') <= connectionLimit
        /\ \A c \in Slots :
              (pc[c] = "acquire" /\ inUse = connectionLimit)
              => (pc'[c] = "acquire" /\ table' = table)
      ]_vars

\* C20 witness: five connections are out, one of them held by a write that is
\* about to run, and a read is waiting for a connection.
C20_Witness ==
    /\ inUse = connectionLimit
    /\ \E c, d \in Slots :
          /\ handler[c] = "loader" /\ pc[c] = "acquire"
          /\ handler[d] = "action" /\ pc[d] = "exec"

\* C21: under fair scheduling, whatever requests of a set have arrived, there
\* comes a time from which each of them has finished and every connection is
\* back in the pool; so each call that waited on the exhausted pool has got
\* its connection, and the requests do not deadlock on the pool.
C21_EveryRequestFinishes ==
    <>[](inUse = 0 /\ \A c \in PoolClients : pc[c] \in {"idle", "done"})

\* C21 witness: the write waits for a connection while the pool is exhausted
\* by reads, of which one has run its statement and one has not.
C21_Witness ==
    /\ inUse = connectionLimit
    /\ pc[Writer] = "acquire" /\ handler[Writer] = "action"
    /\ \E c, d \in Readers : pc[c] = "exec" /\ pc[d] = "release"

\* the statement that belongs to an intent
SqlOf(intent) ==
    IF intent = Create THEN "INSERT"
    ELSE IF intent = Update THEN "UPDATE"
    ELSE IF intent = Delete THEN "DELETE"
    ELSE "NONE"

\* C22: a write request hands query at most one statement.  A create, update
\* or delete that is not answered with an error payload hands it the insert,
\* the update by key or the delete by key, one that is answered with an error
\* payload hands it none; the statement of a request in flight is never
\* replaced, and once the database has run it no other is run for that request.
C22_AtMostOneStatement ==
    [][\A c \in Slots :
        /\ (pc[c] = "idle" /\ handler'[c] = "action")
           => IF IsErrorPayload(resp'[c])
              THEN stmt'[c] = NoStmt /\ pc'[c] = "done"
              ELSE /\ stmt'[c].sql = SqlOf(req'[c].intent)
                   /\ stmt'[c] /= NoStmt => pc'[c] = "acquire"
        /\ (handler[c] = "action" /\ pc'[c] /= "idle") => stmt'[c] = stmt[c]
        /\ (handler[c] = "action" /\ pc[c] \in {"release", "done"})
           => pc'[c] \in {"done", "idle"}
      ]_vars

\* C22 witness: an update has issued its one statement, the database has run
\* it on a row, and the request has returned success.
C22_Witness ==
    \E c \in Slots :
        /\ WriteDone(c) /\ req[c].intent = Update /\ stmt[c].sql = "UPDATE"
        /\ result[c].affected = 1 /\ resp[c] = JsonSuccess

\* C23: when the database runs an update, whatever deposit_date the request
\* carries, every row keeps its deposit_date: a row that is not the target
\* is there afterwards with the same deposit_date, and the target row is there
\* (under the submitted id if the update was accepted, under its old id if
\* not) with the deposit_date it had.
C23_UpdateKeepsDepositDate ==
    [][\A c \in Slots :
        DbRuns(c, "UPDATE") =>
            \A r \in table :
                LET id == IF r.dp_id = stmt[c].where /\ result'[c].ok
                          THEN req[c].dp_id ELSE r.dp_id
                IN  \E q \in table' : q.dp_id = id /\ q.deposit_date = r.deposit_date
      ]_vars

\* C23 witness: an update that submitted another deposit_date has moved the
\* row to XYZ789, and the row does not carry the submitted date.
C23_Witness ==
    \E c \in Slots :
        /\ pc[c] = "release" /\ stmt[c].sql = "UPDATE" /\ result[c].affected = 1
        /\ req[c].deposit_date = DateZulu
        /\ \E q \in table :
              /\ q.dp_id = IdB /\ q.deposit_date /= Null
              /\ q.deposit_date /= formattedDate(DateParse(DateZulu, serverTz))

\* nothing of a request is left in slot c
SlotEmpty(c) ==
    /\ handler[c] = "none" /\ req[c] = NoForm /\ stmt[c] = NoStmt
    /\ result[c] = NoResult /\ queryOut[c] = NoResult /\ ~closeError[c]
    /\ resp[c] = NoResp

C25_MigrationEmptiesTable ==
    [][ /\ (migration.pc = "dropped" /\ migration'.pc = "resolved") => table' = {}
        /\ migration'.pc = "rejected"
           => migration'.failure \in {"ER_GET_CONNECTION", "ER_CONNECTION_LOST"}
      ]_vars

\* C26: when the database runs the insert of a create that passed validation
\* and the trimmed dp_id is the key of a row, the insert is refused and the
\* table is as it was; the request then ends without {success: true}.
C26_DuplicateCreateRefused ==
    [][\A c \in Slots :
        /\ (DbRuns(c, "INSERT") /\ HasKey(table, Trim(req[c].dp_id)))
           => (~result'[c].ok /\ table' = table)
        /\ (Settles(c, "INSERT") /\ ~result[c].ok)
           => (~IsSuccessPayload(resp'[c]) /\ table' = table)
      ]_vars

\* C26 witness: a create of an id that a row has was refused as a duplicate;
\* the row is still the only one and has another deposit_date than the one
\* the refused create carried.
C26_Witness ==
    \E c \in Slots :
        /\ WriteDone(c) /\ stmt[c].sql = "INSERT"
        /\ result[c].failure = "ER_DUP_ENTRY" /\ ~IsSuccessPayload(resp[c])
        /\ Cardinality(table) = 1
        /\ \E r \in table :
              r.dp_id = Trim(req[c].dp_id) /\ r.deposit_date /= stmt[c].deposit_date

\* C27: when the database runs an update whose old_dp_id is the key of a row
\* and whose dp_id is the key of another row, the update is refused and the
\* table is as it was, both rows included; the request then ends without
\* {success: true}.
C27_RenameCollisionRefused ==
    [][\A c \in Slots :
        /\ ( /\ DbRuns(c, "UPDATE") /\ HasKey(table, req[c].old_dp_id)
             /\ req[c].dp_id /= req[c].old_dp_id /\ HasKey(table, req[c].dp_id) )
           => (~result'[c].ok /\ table' = table)
        /\ (Settles(c, "UPDATE") /\ ~result[c].ok)
           => (~IsSuccessPayload(resp'[c]) /\ table' = table)
      ]_vars

\* C27 witness: rows ABC123 and XYZ789 are in the table and an update that
\* would rename ABC123 to XYZ789 has been refused.
C27_Witness ==
    \E c \in Slots :
        /\ pc[c] = "done" /\ stmt[c].sql = "UPDATE"
        /\ req[c].old_dp_id = IdA /\ req[c].dp_id = IdB
        /\ result[c].failure = "ER_DUP_ENTRY" /\ resp[c].outcome = "threw"
        /\ HasKey(table, IdA) /\ HasKey(table, IdB)

\* C28: when the database runs an update, every row whose dp_id is not the
\* old_dp_id of the request is in the table afterwards with all its values,
\* and the table has as many rows as before.
C28_UpdateTouchesOneRow ==
    [][\A c \in Slots :
        DbRuns(c, "UPDATE") =>
            /\ \A r \in table : r.dp_id /= req[c].old_dp_id => r \in table'
            /\ Cardinality(table') = Cardinality(table)
            /\ result'[c].affected <= 1
      ]_vars

\* C28 witness: of two rows an update has changed one, and the other row, of
\* another id, is there with the texts it was created with.
C28_Witness ==
    \E c \in Slots :
        /\ pc[c] = "release" /\ stmt[c].sql = "UPDATE" /\ result[c].affected = 1
        /\ Cardinality(table) = 2
        /\ \E r, q \in table :
              /\ r.dp_id = req[c].dp_id /\ r.comment = DescB.comment
              /\ q.dp_id /= req[c].dp_id /\ q.comment = DescA.comment

\* C29: an update without old_dp_id is not answered with an error payload: it
\* hands query its UPDATE; when the database runs it, the statement is
\* accepted, matches no row and leaves the table as it was; and the request
\* then returns {success: true}.
C29_UpdateWithoutKeyIsNoOp ==
    [][\A c \in Slots :
        /\ (Arrives(c, Update) /\ req'[c].old_dp_id = Null)
           => (stmt'[c].sql = "UPDATE" /\ pc'[c] = "acquire" /\ resp'[c] = NoResp)
        /\ (DbRuns(c, "UPDATE") /\ req[c].old_dp_id = Null)
           => (result'[c].ok /\ result'[c].affected = 0 /\ table' = table)
        /\ (Settles(c, "UPDATE") /\ req[c].old_dp_id = Null /\ result[c].ok)
           => resp'[c] = JsonSuccess
      ]_vars

\* C30: in the step in which conn.end() fails, query settles as the statement
\* did: it resolves with the rows of a statement that succeeded, and rejects
\* with the failure of a statement that failed.
C30_ReleaseFailureKeepsOutcome ==
    [][\A c \in Slots :
        (pc[c] = "release" /\ closeError'[c])
        => IF result[c].ok
           THEN queryOut'[c].ok /\ queryOut'[c].rows = result[c].rows
           ELSE ~queryOut'[c].ok /\ queryOut'[c].failure = result[c].failure
      ]_vars

\* C30 witness: the SELECT of a read succeeded on a table with rows, the
\* release of its connection failed, and the loader returned the rows.
C30_Witness ==
    \E c \in Slots :
        /\ ReadDone(c) /\ closeError[c] /\ result[c].ok
        /\ queryOut[c].rows = table /\ table /= {} /\ resp[c] = JsonRows(table)

====
